---- MODULE Spec2Model ----
(***************************************************************************)
(* Model of cpg_app_1.py: the compliance rule engine (build_rules,         *)
(* check_compliance, get_compliance_score), the generation reply handling  *)
(* (generate_for_channel) and the generation loop of main().               *)
(*                                                                         *)
(* Texts are sequences of one-character strings, so that the regular       *)
(* expressions of build_rules can be matched character by character.       *)
(***************************************************************************)
EXTENDS Integers, Sequences, FiniteSets, TLC

VARIABLES
  \* main(): the generation run
  session_results,    \* st.session_state.results
  selected_channels,  \* the channels of the current request, in request order
  selected_product,   \* the product of the current request
  pc,                 \* where main() is
  i,                  \* the loop index of enumerate(selected_channels, start=1)
  results,            \* the local list the run accumulates
  variants,           \* what generate_for_channel returned for the current channel
  enriched,           \* the local list of the variants enriched so far
  calls,              \* the channel ids generate_for_channel was called with in this run
  reply,              \* what the generation service answered to the current call
  error,              \* what st.error showed in this run, "" if nothing
  progress_log,       \* the values given to progress.progress in this run
  \* the rule engine on its own
  ev_text,            \* the text given to check_compliance
  ev_category,        \* the category given to check_compliance
  ev_issues,          \* the issue list: check_compliance's result, get_compliance_score's input
  ev_score,          \* what get_compliance_score returned
  epc                 \* "input" before the functions are applied, then "evaluated"

orch_vars ==
  <<session_results, selected_channels, selected_product, pc, i, results,
    variants, enriched, calls, reply, error, progress_log>>

eval_vars == <<ev_text, ev_category, ev_issues, ev_score, epc>>

vars == <<orch_vars, eval_vars>>

(***************************************************************************)
(* Bounds of the model.                                                    *)
(***************************************************************************)
\* Occurrences of phrases of one rule in an input text of the rule engine.
MaxOccurrences == 3

\* Issues in an input of get_compliance_score.
MaxIssues == 4

\* The channels of CHANNELS offered to the multiselect (the first MaxChannels).
MaxChannels == 2

(***************************************************************************)
(* Characters: str ordering is by code point, \w is [A-Za-z0-9_], and      *)
(* re.IGNORECASE folds ASCII case.                                         *)
(***************************************************************************)
UpperCase ==
  <<"A","B","C","D","E","F","G","H","I","J","K","L","M",
    "N","O","P","Q","R","S","T","U","V","W","X","Y","Z">>

LowerCase ==
  <<"a","b","c","d","e","f","g","h","i","j","k","l","m",
    "n","o","p","q","r","s","t","u","v","w","x","y","z">>

Digits == <<"0","1","2","3","4","5","6","7","8","9">>

\* The characters of the model in code-point order.
CharOrder ==
  <<" ", "#", "%", ",", "-", ".">> \o Digits \o UpperCase \o <<"_">> \o LowerCase

Range(s) == { s[k] : k \in 1..Len(s) }

IndexOf(s, c) == CHOOSE k \in 1..Len(s) : s[k] = c

Alphabet == Range(CharOrder)

OrdOf == [c \in Alphabet |-> IndexOf(CharOrder, c)]

Ord(c) == OrdOf[c]

WordChars == Range(Digits) \cup Range(UpperCase) \cup Range(LowerCase) \cup {"_"}

LowerOf ==
  [c \in Alphabet |->
     IF c \in Range(UpperCase) THEN LowerCase[IndexOf(UpperCase, c)] ELSE c]

Lower(c) == LowerOf[c]

UpperOf ==
  [c \in Alphabet |->
     IF c \in Range(LowerCase) THEN UpperCase[IndexOf(LowerCase, c)] ELSE c]

Upper(c) == UpperOf[c]

\* str < str : lexicographic by code point, a proper prefix first.
RECURSIVE StrLess(_, _)
StrLess(a, b) ==
  IF b = <<>> THEN FALSE
  ELSE IF a = <<>> THEN TRUE
  ELSE IF a[1] # b[1] THEN Ord(a[1]) < Ord(b[1])
  ELSE StrLess(Tail(a), Tail(b))

\* sorted(set(...)) of a set of strings.
RECURSIVE Sorted(_)
Sorted(S) ==
  IF S = {} THEN <<>>
  ELSE LET m == CHOOSE x \in S : \A y \in S \ {x} : StrLess(x, y)
       IN  <<m>> \o Sorted(S \ {m})

(***************************************************************************)
(* Regular expressions of the shape \b(alt1|alt2|...)\b.  An alternative   *)
(* is a sequence of atoms; an atom matches one character of a set and may  *)
(* be optional (the ? of "prevents?").                                     *)
(***************************************************************************)
RECURSIVE Lit(_)
Lit(s) ==
  IF s = <<>> THEN <<>>
  ELSE <<[cs |-> {Head(s)}, opt |-> FALSE]>> \o Lit(Tail(s))

Opt(c) == [cs |-> {c}, opt |-> TRUE]

Cls(S) == [cs |-> S, opt |-> FALSE]

(***************************************************************************)
(* build_rules: the rule table, per category in declaration order.  Every  *)
(* pattern of the table is \b( ... )\b; regex holds the alternatives of    *)
(* the group in the order written.                                         *)
(***************************************************************************)
SkincareRules ==
  <<
    [rule |-> "No disease treatment claims", severity |-> "critical",
     regex |-> <<
        Lit(<<"c","u","r","e">>),
        Lit(<<"t","r","e","a","t">>),
        Lit(<<"h","e","a","l">>),
        Lit(<<"r","e","m","e","d","y">>) >>],
    [rule |-> "No guaranteed results claims", severity |-> "critical",
     regex |-> <<
        Lit(<<"g","u","a","r","a","n","t","e","e","d">>),
        Lit(<<"1","0","0","%">>),
        Lit(<<"a","l","w","a","y","s"," ","w","o","r","k","s">>),
        Lit(<<"p","e","r","m","a","n","e","n","t">>) >>],
    [rule |-> "Must include 'results may vary' for efficacy claims", severity |-> "warning",
     regex |-> <<
        Lit(<<"c","l","i","n","i","c","a","l","l","y"," ","p","r","o","v","e","n">>),
        Lit(<<"d","e","r","m","a","t","o","l","o","g","i","s","t"," ","t","e","s","t","e","d">>) >>],
    [rule |-> "No comparative superiority without evidence", severity |-> "warning",
     regex |-> <<
        Lit(<<"b","e","s","t">>),
        Lit(<<"#","1">>),
        Lit(<<"n","u","m","b","e","r"," ","o","n","e">>),
        Lit(<<"s","u","p","e","r","i","o","r"," ","t","o">>) >>],
    [rule |-> "FDA disclaimer required for structure/function claims", severity |-> "info",
     regex |-> <<
        Lit(<<"s","u","p","p","o","r","t","s">>),
        Lit(<<"p","r","o","m","o","t","e","s">>),
        Lit(<<"h","e","l","p","s"," ","m","a","i","n","t","a","i","n">>) >>]
  >>

FoodBeverageRules ==
  <<
    [rule |-> "No disease prevention claims", severity |-> "critical",
     regex |-> <<
        Lit(<<"p","r","e","v","e","n","t">>) \o <<Opt("s")>>,
        Lit(<<"c","u","r","e">>) \o <<Opt("s")>>,
        Lit(<<"t","r","e","a","t">>) \o <<Opt("s")>>,
        Lit(<<"f","i","g","h","t">>) \o <<Opt("s")>> \o Lit(<<" ","d","i","s","e","a","s","e">>) >>],
    [rule |-> "No misleading health claims", severity |-> "critical",
     regex |-> <<
        Lit(<<"s","u","p","e","r","f","o","o","d">>),
        Lit(<<"m","i","r","a","c","l","e">>),
        Lit(<<"m","a","g","i","c">>) >>],
    [rule |-> "Allergen info should be accessible", severity |-> "warning",
     regex |-> <<
        Lit(<<"c","o","n","t","a","i","n","s">>),
        Lit(<<"m","a","y"," ","c","o","n","t","a","i","n">>),
        Lit(<<"a","l","l","e","r","g","e","n">>) >>],
    [rule |-> "Nutritional claims must be substantiated", severity |-> "warning",
     regex |-> <<
        Lit(<<"h","i","g","h"," ","p","r","o","t","e","i","n">>),
        Lit(<<"l","o","w"," ","s","u","g","a","r">>),
        Lit(<<"z","e","r","o"," ","c","a","l","o","r","i","e">>),
        Lit(<<"n","o"," ","s","u","g","a","r">>) >>],
    [rule |-> "Organic claims require certification", severity |-> "info",
     regex |-> <<
        Lit(<<"o","r","g","a","n","i","c">>),
        Lit(<<"c","e","r","t","i","f","i","e","d"," ","o","r","g","a","n","i","c">>) >>]
  >>

HouseholdRules ==
  <<
    [rule |-> "No absolute safety claims", severity |-> "critical",
     regex |-> <<
        Lit(<<"1","0","0","%"," ","s","a","f","e">>),
        Lit(<<"c","o","m","p","l","e","t","e","l","y"," ","s","a","f","e">>),
        Lit(<<"t","o","t","a","l","l","y"," ","h","a","r","m","l","e","s","s">>) >>],
    [rule |-> "No 'chemical-free' claims (misleading)", severity |-> "warning",
     regex |-> <<
        Lit(<<"c","h","e","m","i","c","a","l">>) \o <<Cls({" ","-"})>> \o Lit(<<"f","r","e","e">>),
        Lit(<<"n","o"," ","c","h","e","m","i","c","a","l","s">>) >>],
    [rule |-> "EPA certification must be accurate", severity |-> "critical",
     regex |-> <<
        Lit(<<"E","P","A"," ","c","e","r","t","i","f","i","e","d">>),
        Lit(<<"E","P","A"," ","a","p","p","r","o","v","e","d">>) >>],
    [rule |-> "Efficacy claims need qualification", severity |-> "warning",
     regex |-> <<
        Lit(<<"k","i","l","l","s"," ","9","9">>),
        Lit(<<"e","l","i","m","i","n","a","t","e","s"," ","a","l","l">>),
        Lit(<<"d","e","s","t","r","o","y","s">>) >>]
  >>

HaircareRules ==
  <<
    [rule |-> "No permanent change claims without evidence", severity |-> "critical",
     regex |-> <<
        Lit(<<"p","e","r","m","a","n","e","n","t">>),
        Lit(<<"f","o","r","e","v","e","r">>),
        Lit(<<"i","r","r","e","v","e","r","s","i","b","l","e">>) >>],
    [rule |-> "No medical claims", severity |-> "critical",
     regex |-> <<
        Lit(<<"t","r","e","a","t">>) \o <<Opt("s")>> \o Lit(<<" ","h","a","i","r"," ","l","o","s","s">>),
        Lit(<<"c","u","r","e">>) \o <<Opt("s")>> \o Lit(<<" ","d","a","n","d","r","u","f","f">>),
        Lit(<<"m","e","d","i","c","a","l">>) >>],
    [rule |-> "Time-based claims need substantiation", severity |-> "warning",
     regex |-> <<
        Lit(<<"i","n","s","t","a","n","t">>),
        Lit(<<"i","m","m","e","d","i","a","t","e">>),
        Lit(<<"o","v","e","r","n","i","g","h","t">>) >>]
  >>

BabyCareRules ==
  <<
    [rule |-> "No absolute safety claims", severity |-> "critical",
     regex |-> <<
        Lit(<<"1","0","0","%"," ","s","a","f","e">>),
        Lit(<<"c","o","m","p","l","e","t","e","l","y"," ","s","a","f","e">>),
        Lit(<<"z","e","r","o"," ","r","i","s","k">>) >>],
    [rule |-> "Medical endorsement must be verified", severity |-> "critical",
     regex |-> <<
        Lit(<<"d","o","c","t","o","r"," ","r","e","c","o","m","m","e","n","d","e","d">>),
        Lit(<<"c","l","i","n","i","c","a","l","l","y"," ","p","r","o","v","e","n">>),
        Lit(<<"m","e","d","i","c","a","l","l","y"," ","a","p","p","r","o","v","e","d">>) >>],
    [rule |-> "Age appropriateness must be specified", severity |-> "warning",
     regex |-> <<
        Lit(<<"a","l","l"," ","a","g","e","s">>),
        Lit(<<"a","n","y"," ","a","g","e">>),
        Lit(<<"n","e","w","b","o","r","n">>) >>],
    [rule |-> "Ingredient transparency required", severity |-> "info",
     regex |-> <<
        Lit(<<"n","a","t","u","r","a","l">>),
        Lit(<<"o","r","g","a","n","i","c">>),
        Lit(<<"p","u","r","e">>) >>]
  >>

COMPLIANCE_RULES ==
  ("Skincare" :> SkincareRules) @@ ("Food & Beverage" :> FoodBeverageRules) @@
  ("Household" :> HouseholdRules) @@ ("Haircare" :> HaircareRules) @@
  ("Baby Care" :> BabyCareRules)

Categories == DOMAIN COMPLIANCE_RULES

\* COMPLIANCE_RULES.get(category, [])
RulesFor(category) ==
  IF category \in Categories THEN COMPLIANCE_RULES[category] ELSE <<>>

(***************************************************************************)
(* Matching as re does it: leftmost match, the alternatives tried in       *)
(* order, an optional atom tried greedily first, backtracking until the    *)
(* closing \b holds.                                                       *)
(***************************************************************************)
IsWordAt(text, q) == q \in 1..Len(text) /\ text[q] \in WordChars

\* \b between text[p-1] and text[p]
WordBoundary(text, p) == IsWordAt(text, p - 1) # IsWordAt(text, p)

AtomMatches(a, c) == \E d \in a.cs : Lower(d) = Lower(c)

\* The positions after a match of alt[k..] starting at p, most preferred first.
RECURSIVE AltEnds(_, _, _, _)
AltEnds(alt, k, text, p) ==
  IF k > Len(alt) THEN <<p>>
  ELSE LET a    == alt[k]
           take == IF p <= Len(text) /\ AtomMatches(a, text[p])
                   THEN AltEnds(alt, k + 1, text, p + 1) ELSE <<>>
           skip == IF a.opt THEN AltEnds(alt, k + 1, text, p) ELSE <<>>
       IN  take \o skip

RECURSIVE GroupEnds(_, _, _, _)
GroupEnds(regex, n, text, p) ==
  IF n > Len(regex) THEN <<>>
  ELSE AltEnds(regex[n], 1, text, p) \o GroupEnds(regex, n + 1, text, p)

\* The position after the match of \b(regex)\b that starts at p, or 0.
MatchEnd(regex, text, p) ==
  IF ~WordBoundary(text, p) THEN 0
  ELSE LET ends == GroupEnds(regex, 1, text, p)
           ok   == { k \in 1..Len(ends) : WordBoundary(text, ends[k]) }
       IN  IF ok = {} THEN 0
           ELSE ends[CHOOSE k \in ok : \A j \in ok : k <= j]

\* regex.findall(text): the group of every non-overlapping match, left to right.
RECURSIVE FindAll(_, _, _)
FindAll(regex, text, p) ==
  IF p > Len(text) THEN <<>>
  ELSE LET e == MatchEnd(regex, text, p)
       IN  IF e = 0 THEN FindAll(regex, text, p + 1)
           ELSE <<SubSeq(text, p, e - 1)>> \o FindAll(regex, text, e)

\* The matches as findall returns them: repeated, in text order.
unique_matches_AsFound(matches) == matches

\* sorted(set(matches))
unique_matches(matches) == Sorted(Range(matches))

\* The issues in the reverse of the declaration order.
RECURSIVE CheckRules_Reversed(_, _, _)
CheckRules_Reversed(rules, k, text) ==
  IF k > Len(rules) THEN <<>>
  ELSE LET rule    == rules[k]
           matches == FindAll(rule.regex, text, 1)
           rest    == CheckRules_Reversed(rules, k + 1, text)
       IN  IF matches # <<>>
           THEN rest \o <<[rule |-> rule.rule, severity |-> rule.severity,
                           matches |-> unique_matches(matches)]>>
           ELSE rest

RECURSIVE CheckRules(_, _, _)
CheckRules(rules, k, text) ==
  IF k > Len(rules) THEN <<>>
  ELSE LET rule    == rules[k]
           matches == FindAll(rule.regex, text, 1)
           rest    == CheckRules(rules, k + 1, text)
       IN  IF matches # <<>>
           THEN <<[rule |-> rule.rule, severity |-> rule.severity,
                   matches |-> unique_matches(matches)]>> \o rest
           ELSE rest

check_compliance(text, category) == CheckRules(RulesFor(category), 1, text)

\* The warning test placed before the critical test.
get_compliance_score_WarningFirst(issues) ==
  LET severities == { issues[k].severity : k \in 1..Len(issues) }
  IN  IF "warning" \in severities THEN "Caution"
      ELSE IF "critical" \in severities THEN "Needs Review"
      ELSE IF "info" \in severities THEN "Minor Notes"
      ELSE "Compliant"

get_compliance_score(issues) ==
  LET severities == { issues[k].severity : k \in 1..Len(issues) }
  IN  IF "critical" \in severities THEN "Needs Review"
      ELSE IF "warning" \in severities THEN "Caution"
      ELSE IF "info" \in severities THEN "Minor Notes"
      ELSE "Compliant"

(***************************************************************************)
(* The rule engine on its own: Evaluate applies check_compliance and       *)
(* get_compliance_score to an input text as main() does for one variant.   *)
(* The input texts are built from the phrases of the category's rules,     *)
(* so that every phrase of every rule occurs alone, repeated, capitalised, *)
(* next to another phrase, and inside a longer word.                       *)
(***************************************************************************)
RECURSIVE Concat(_)
Concat(ss) == IF ss = <<>> THEN <<>> ELSE Head(ss) \o Concat(Tail(ss))

\* The strings an alternative can match, case apart.
RECURSIVE AltStrings(_, _)
AltStrings(alt, k) ==
  IF k > Len(alt) THEN {<<>>}
  ELSE LET rest == AltStrings(alt, k + 1)
           with == { <<c>> \o r : c \in alt[k].cs, r \in rest }
       IN  IF alt[k].opt THEN with \cup rest ELSE with

RulePhrases(rule) ==
  UNION { AltStrings(rule.regex[n], 1) : n \in 1..Len(rule.regex) }

\* One phrase of the rule: the first alternative without its optional atoms.
FirstPhrase(rule) ==
  LET alt == rule.regex[1]
  IN  Concat([k \in 1..Len(alt) |->
                IF alt[k].opt THEN <<>> ELSE <<CHOOSE c \in alt[k].cs : TRUE>>])

Capitalize(p) == <<Upper(p[1])>> \o Tail(p)

\* What precedes or follows the phrases: nothing, punctuation, a letter.
Glue == { <<>>, <<".">>, <<"x">> }

UnknownCategory == "Pet Care"

\* Texts around the phrases of one rule.
SingleRuleTexts(c) ==
  LET rules == COMPLIANCE_RULES[c]
  IN  UNION { LET rule   == rules[r]
                  more   == { <<" ">> \o q :
                                q \in { ph, Capitalize(ph), FirstPhrase(rule) } }
                  tails  == UNION { [1..n -> more] : n \in 0..(MaxOccurrences - 1) }
              IN  { g[1] \o ph \o Concat(t) \o g[2] :
                      g \in { g \in Glue \X Glue : g[1] = <<>> \/ g[2] = <<>> },
                      t \in tails }
            : <<r, ph>> \in { <<r, ph>> \in
                  (1..Len(rules)) \X UNION { RulePhrases(rules[r]) : r \in 1..Len(rules) } :
                  ph \in RulePhrases(rules[r]) } }

\* Texts with one phrase of several rules, in any order.
MultiRuleTexts(c) ==
  LET rules == COMPLIANCE_RULES[c]
      n     == Len(rules)
      perms == UNION { { f \in [1..m -> 1..n] :
                           \A a, b \in 1..m : a # b => f[a] # f[b] } : m \in 0..n }
  IN  { Concat([k \in 1..Len(f) |->
                  (IF k = 1 THEN <<>> ELSE <<" ">>) \o FirstPhrase(rules[f[k]])]) :
        f \in perms }

\* No call has been answered.
NoReply ==
  [status |-> "none", json |-> "none", has_variants |-> FALSE,
   is_list |-> FALSE, items |-> <<>>]

\* Before the first click: nothing stored, the selectbox on the first product.
OrchIdle ==
  /\ session_results = <<>>
  /\ selected_channels = <<>>
  /\ selected_product = [id |-> "p1", category |-> "Skincare"]
  /\ pc = "idle"
  /\ i = 0
  /\ results = <<>>
  /\ variants = <<>>
  /\ enriched = <<>>
  /\ calls = <<>>
  /\ reply = NoReply
  /\ error = ""
  /\ progress_log = <<>>

InitEval ==
  /\ OrchIdle
  /\ \/ \E c \in Categories :
          /\ ev_category = c
          /\ ev_text \in SingleRuleTexts(c) \cup MultiRuleTexts(c)
     \/ /\ ev_category = UnknownCategory
        /\ ev_text \in MultiRuleTexts("Skincare")
  /\ ev_issues = <<>>
  /\ ev_score = "none"
  /\ epc = "input"

\* main(), lines 457-459, for one text
Evaluate ==
  /\ epc = "input"
  /\ ev_issues' = check_compliance(ev_text, ev_category)
  /\ ev_score' = get_compliance_score(ev_issues')
  /\ epc' = "evaluated"
  /\ UNCHANGED <<ev_text, ev_category, orch_vars>>

NextEval == Evaluate

SpecEval == InitEval /\ [][NextEval]_vars

(***************************************************************************)
(* get_compliance_score on its own, over every issue list of up to         *)
(* MaxIssues issues in any order of severities.                            *)
(***************************************************************************)
Severities == { "critical", "warning", "info" }

IssueLists ==
  UNION { [1..n -> [rule : {"rule"}, severity : Severities, matches : {<<<<"x">>>>}]] :
          n \in 0..MaxIssues }

InitVerdict ==
  /\ OrchIdle
  /\ ev_text = <<>>
  /\ ev_category = UnknownCategory
  /\ ev_issues \in IssueLists
  /\ ev_score = "none"
  /\ epc = "input"

Score ==
  /\ epc = "input"
  /\ ev_score' = get_compliance_score(ev_issues)
  /\ epc' = "evaluated"
  /\ UNCHANGED <<ev_text, ev_category, ev_issues, orch_vars>>

NextVerdict == Score

SpecVerdict == InitVerdict /\ [][NextVerdict]_vars

(***************************************************************************)
(* Claims about the rule engine.                                           *)
(***************************************************************************)
HasSeverity(iss, sev) == \E k \in 1..Len(iss) : iss[k].severity = sev

\* C4: the verdict of an issue list is Needs Review if any issue is critical,
\* otherwise Caution if any is warning, otherwise Minor Notes if any is info,
\* otherwise (no issue) Compliant, whatever the number and order of the issues.
C4_VerdictDominance ==
  epc = "evaluated" =>
    LET crit == HasSeverity(ev_issues, "critical")
        warn == HasSeverity(ev_issues, "warning")
        info == HasSeverity(ev_issues, "info")
    IN  /\ (crit => (ev_score = "Needs Review"))
        /\ ((~crit /\ warn) => (ev_score = "Caution"))
        /\ ((~crit /\ ~warn /\ info) => (ev_score = "Minor Notes"))
        /\ ((ev_issues = <<>>) <=> (ev_score = "Compliant"))

\* A critical issue after an info and a warning issue, scored Needs Review.
C4_Witness ==
  /\ epc = "evaluated"
  /\ Len(ev_issues) = 3
  /\ ev_issues[1].severity = "info"
  /\ ev_issues[2].severity = "warning"
  /\ ev_issues[3].severity = "critical"
  /\ ev_score = "Needs Review"

\* Some match of the rule's pattern starts somewhere in the text.
RuleHasMatch(rule, txt) ==
  \E p \in 1..Len(txt) : MatchEnd(rule.regex, txt, p) # 0

\* C6: check_compliance emits exactly one issue for each rule of the category
\* with at least one match and none for a rule without, in the declaration
\* order of the rules; no match, an empty text or an unknown category gives
\* the empty issue list.
C6_OneIssuePerMatchedRule ==
  epc = "evaluated" =>
    LET rules   == RulesFor(ev_category)
        matched == { r \in 1..Len(rules) : RuleHasMatch(rules[r], ev_text) }
        nth(k)  == CHOOSE r \in matched :
                     Cardinality({ q \in matched : q < r }) = k - 1
    IN  /\ Len(ev_issues) = Cardinality(matched)
        /\ \A k \in 1..Len(ev_issues) :
             /\ ev_issues[k].rule = rules[nth(k)].rule
             /\ ev_issues[k].severity = rules[nth(k)].severity

\* A Household text matching all four rules, the issues in declaration order.
C6_Witness ==
  /\ epc = "evaluated"
  /\ ev_category = "Household"
  /\ Len(ev_text) > 0
  /\ ev_text[1] = "k"
  /\ Len(ev_issues) = 4
  /\ [k \in 1..4 |-> ev_issues[k].severity]
       = <<"critical", "warning", "critical", "warning">>

\* C7: the matches of an emitted issue are in ascending order without a
\* repeated element, and are exactly the distinct substrings the rule's
\* pattern matched in the text, case as matched.
C7_MatchesSortedDistinct ==
  epc = "evaluated" /\ ev_category \in Categories =>
    \A k \in 1..Len(ev_issues) :
      LET m    == ev_issues[k].matches
          rule == CHOOSE r \in Range(RulesFor(ev_category)) : r.rule = ev_issues[k].rule
      IN  /\ \A a, b \in 1..Len(m) : a < b => StrLess(m[a], m[b])
          /\ Range(m) = Range(FindAll(rule.regex, ev_text, 1))
          /\ \A a \in 1..Len(m) :
               \E p \in 1..(Len(ev_text) - Len(m[a]) + 1) :
                 SubSeq(ev_text, p, p + Len(m[a]) - 1) = m[a]

\* "heal cure cure": cure twice and heal once give <<cure, heal>>.
C7_Witness ==
  /\ epc = "evaluated"
  /\ ev_category = "Skincare"
  /\ ev_text = <<"h","e","a","l"," ","c","u","r","e"," ","c","u","r","e">>
  /\ Len(ev_issues) = 1
  /\ ev_issues[1].matches = << <<"c","u","r","e">>, <<"h","e","a","l">> >>

\* The phrase occurs in the text, case apart, delimited on both sides by a
\* non-word character or an end of the text.
Standalone(ph, txt) ==
  \E p \in 1..(Len(txt) - Len(ph) + 1) :
    /\ \A k \in 1..Len(ph) : Lower(txt[p + k - 1]) = Lower(ph[k])
    /\ ~IsWordAt(txt, p - 1)
    /\ ~IsWordAt(txt, p + Len(ph))

Triggered(rule) == \E k \in 1..Len(ev_issues) : ev_issues[k].rule = rule.rule

\* C9: for every rule of the category, a phrase of the rule standing alone in
\* the text always triggers the rule, and the rule is not triggered when its
\* phrases occur only inside longer words.
C9_WordBoundary ==
  epc = "evaluated" =>
    \A rule \in Range(RulesFor(ev_category)) :
      Triggered(rule) <=> \E ph \in RulePhrases(rule) : Standalone(ph, ev_text)

(***************************************************************************)
(* Reference data read by main().                                          *)
(***************************************************************************)
CHANNELS ==
  << [id |-> "instagram",    name |-> "Instagram Post"],
     [id |-> "facebook",     name |-> "Facebook Ad"],
     [id |-> "email",        name |-> "Email Campaign"],
     [id |-> "twitter",      name |-> "X/Twitter Post"],
     [id |-> "product_page", name |-> "Product Page"],
     [id |-> "print_ad",     name |-> "Print Ad"],
     [id |-> "tvc_script",   name |-> "TV/Video Script"],
     [id |-> "sms",          name |-> "SMS/WhatsApp"] >>

\* Two products of PRODUCT_DATABASE, by id, with their categories.
PRODUCT_DATABASE ==
  { [id |-> "p1", category |-> "Skincare"],
    [id |-> "p3", category |-> "Household"] }

\* What st.multiselect can return: distinct channels in the order selected.
ChannelSelections ==
  LET offered == { CHANNELS[k] : k \in 1..MaxChannels }
  IN  UNION { { f \in [1..n -> offered] :
                  \A a, b \in 1..n : a # b => f[a] # f[b] } : n \in 0..MaxChannels }

(***************************************************************************)
(* The replies of the generation service.                                  *)
(***************************************************************************)
\* The variant objects a reply can hold, as parsed from JSON.
VariantA ==
  [label |-> <<"A">>,
   headline |-> <<"c","u","r","e">>,
   body |-> <<"1","0","0","%"," ","s","a","f","e">>,
   cta |-> <<"b","e","s","t">>,
   hashtags |-> << <<"p","u","r","e">> >>,
   complianceNotes |-> <<>>]

\* No "cta" key; rule phrases only in the hashtags and the notes.
VariantB ==
  [label |-> <<"B">>,
   headline |-> <<"s","o","f","t">>,
   body |-> <<>>,
   hashtags |-> << <<"b","e","s","t">> >>,
   complianceNotes |-> <<"h","e","a","l">>]

VariantLists == { <<>>, <<VariantB, VariantA>> }

\* status: how urlopen ended; json: whether the content parses; has_variants,
\* is_list: the shape of the parsed object's "variants"; items: its elements.
Replies ==
  { [status |-> "urlerror", json |-> "none", has_variants |-> FALSE,
     is_list |-> FALSE, items |-> <<>>],
    [status |-> "httperror", json |-> "none", has_variants |-> FALSE,
     is_list |-> FALSE, items |-> <<>>],
    [status |-> "ok", json |-> "invalid", has_variants |-> FALSE,
     is_list |-> FALSE, items |-> <<>>],
    [status |-> "ok", json |-> "object", has_variants |-> FALSE,
     is_list |-> FALSE, items |-> <<>>],
    [status |-> "ok", json |-> "object", has_variants |-> TRUE,
     is_list |-> FALSE, items |-> <<>>] }
  \cup
  { [status |-> "ok", json |-> "object", has_variants |-> TRUE,
     is_list |-> TRUE, items |-> l] : l \in VariantLists }

NetworkError == "Network error while calling OpenAI"

RequestFailed == "OpenAI request failed"

JSONDecodeError == "JSONDecodeError"

InvalidVariants == "Model response did not include a valid 'variants' array."

ProgressFailed == "progress.progress raised"

SelectChannel == "Select at least one channel."

GenerationErrors == { NetworkError, RequestFailed, JSONDecodeError, InvalidVariants }

\* openai_chat_completion and the parsing of generate_for_channel:
\* what is raised ("" if nothing) and what is returned.
generate_for_channel(answer) ==
  IF answer.status = "urlerror" THEN [raised |-> NetworkError, value |-> <<>>]
  ELSE IF answer.status = "httperror" THEN [raised |-> RequestFailed, value |-> <<>>]
  ELSE IF answer.json # "object" THEN [raised |-> JSONDecodeError, value |-> <<>>]
  ELSE LET parsed_variants ==
             IF answer.has_variants
             THEN [is_list |-> answer.is_list, items |-> answer.items]
             ELSE [is_list |-> TRUE, items |-> <<>>]
       IN  IF ~parsed_variants.is_list
           THEN [raised |-> InvalidVariants, value |-> <<>>]
           ELSE [raised |-> "", value |-> parsed_variants.items]

(***************************************************************************)
(* main(): one run per click on Generate Content.                          *)
(***************************************************************************)
\* v.get(key, '')
Get(v, key) == IF key \in DOMAIN v THEN v[key] ELSE <<>>

\* The compliance notes checked along with the copy.
VariantText_WithNotes(v) ==
  Get(v, "headline") \o <<" ">> \o Get(v, "body") \o <<" ">> \o Get(v, "cta")
    \o <<" ">> \o Get(v, "complianceNotes")

\* f"{v.get('headline', '')} {v.get('body', '')} {v.get('cta', '')}"
VariantText(v) ==
  Get(v, "headline") \o <<" ">> \o Get(v, "body") \o <<" ">> \o Get(v, "cta")

\* v with v["_compliance_issues"] and v["_compliance_score"] set
Enrich(v, cat) ==
  LET found == check_compliance(VariantText(v), cat)
  IN  [k \in DOMAIN v \cup {"_compliance_issues", "_compliance_score"} |->
         IF k = "_compliance_issues" THEN found
         ELSE IF k = "_compliance_score" THEN get_compliance_score(found)
         ELSE v[k]]

Init ==
  /\ OrchIdle
  /\ ev_text = <<>>
  /\ ev_category = UnknownCategory
  /\ ev_issues = <<>>
  /\ ev_score = "none"
  /\ epc = "off"

Resting == pc \in { "idle", "done", "aborted", "rejected" }

\* The loop run over no channel, and its empty result list stored.
RejectEmpty_StoresEmpty ==
  /\ Resting
  /\ \E prod \in PRODUCT_DATABASE :
       /\ selected_product' = prod
       /\ selected_channels' = <<>>
  /\ error' = ""
  /\ pc' = "done"
  /\ i' = 0
  /\ results' = <<>>
  /\ variants' = <<>>
  /\ enriched' = <<>>
  /\ calls' = <<>>
  /\ reply' = NoReply
  /\ progress_log' = <<>>
  /\ session_results' = <<>>
  /\ UNCHANGED eval_vars

\* if generate_clicked: if not selected_channel_labels: st.error(...)
RejectEmpty ==
  /\ Resting
  /\ \E prod \in PRODUCT_DATABASE :
       /\ selected_product' = prod
       /\ selected_channels' = <<>>
  /\ error' = SelectChannel
  /\ pc' = "rejected"
  /\ i' = 0
  /\ results' = <<>>
  /\ variants' = <<>>
  /\ enriched' = <<>>
  /\ calls' = <<>>
  /\ reply' = NoReply
  /\ progress_log' = <<>>
  /\ UNCHANGED <<session_results, eval_vars>>

\* The stored results dropped when a run begins.
StartRun_ClearsStored ==
  /\ Resting
  /\ \E prod \in PRODUCT_DATABASE, sel \in ChannelSelections \ {<<>>} :
       /\ selected_product' = prod
       /\ selected_channels' = sel
  /\ error' = ""
  /\ pc' = "call"
  /\ i' = 1
  /\ results' = <<>>
  /\ variants' = <<>>
  /\ enriched' = <<>>
  /\ calls' = <<>>
  /\ reply' = NoReply
  /\ progress_log' = <<>>
  /\ session_results' = <<>>
  /\ UNCHANGED eval_vars

\* else: results = []; progress = st.progress(0); ...; the loop begins
StartRun ==
  /\ Resting
  /\ \E prod \in PRODUCT_DATABASE, sel \in ChannelSelections \ {<<>>} :
       /\ selected_product' = prod
       /\ selected_channels' = sel
  /\ error' = ""
  /\ pc' = "call"
  /\ i' = 1
  /\ results' = <<>>
  /\ variants' = <<>>
  /\ enriched' = <<>>
  /\ calls' = <<>>
  /\ reply' = NoReply
  /\ progress_log' = <<>>
  /\ UNCHANGED <<session_results, eval_vars>>

\* status.write(...); generate_for_channel(...) sends the request
CallGeneration ==
  /\ pc = "call"
  /\ calls' = Append(calls, selected_channels[i].id)
  /\ pc' = "waiting"
  /\ UNCHANGED <<session_results, selected_channels, selected_product, i, results,
                 variants, enriched, reply, error, progress_log, eval_vars>>

\* The failed step tried again instead of ending the run.
HandleError_Retry(err) ==
  /\ error' = err
  /\ pc' = "call"
  /\ UNCHANGED <<session_results, selected_channels, selected_product, i, results,
                 variants, enriched, calls, progress_log, eval_vars>>

\* The handler keeping what the run had accumulated.
HandleError_StoresPartial(err) ==
  /\ error' = err
  /\ pc' = "aborted"
  /\ session_results' = results
  /\ results' = <<>>
  /\ variants' = <<>>
  /\ enriched' = <<>>
  /\ UNCHANGED <<selected_channels, selected_product, i, calls, progress_log, eval_vars>>

\* except Exception as err: st.error(str(err))
\* The script run ends here and its locals results, variants, enriched go.
HandleError(err) ==
  /\ error' = err
  /\ pc' = "aborted"
  /\ results' = <<>>
  /\ variants' = <<>>
  /\ enriched' = <<>>
  /\ UNCHANGED <<session_results, selected_channels, selected_product, i, calls,
                 progress_log, eval_vars>>

\* generate_for_channel receives the reply, and returns the variants or raises
ReceiveReply ==
  /\ pc = "waiting"
  /\ \E rep \in Replies :
       LET r == generate_for_channel(rep)
       IN  /\ reply' = rep
           /\ IF r.raised # ""
              THEN HandleError(r.raised)
              ELSE /\ variants' = r.value
                   /\ enriched' = <<>>
                   /\ pc' = "enrich"
                   /\ UNCHANGED <<session_results, selected_channels, selected_product,
                                  i, results, calls, error, progress_log, eval_vars>>

\* for v in variants: ...; enriched.append(v)     (v is changed in place)
EnrichVariant ==
  /\ pc = "enrich"
  /\ Len(enriched) < Len(variants)
  /\ LET j == Len(enriched) + 1
         v == Enrich(variants[j], selected_product.category)
     IN  /\ variants' = [variants EXCEPT ![j] = v]
         /\ enriched' = Append(enriched, v)
  /\ UNCHANGED <<session_results, selected_channels, selected_product, pc, i, results,
                 calls, reply, error, progress_log, eval_vars>>

\* The new result put first.
AppendResult_Front ==
  /\ pc = "enrich"
  /\ Len(enriched) = Len(variants)
  /\ results' = <<[channel_id |-> selected_channels[i].id,
                   channel_name |-> selected_channels[i].name,
                   variants |-> enriched]>> \o results
  /\ pc' = "progress"
  /\ reply' = NoReply
  /\ UNCHANGED <<session_results, selected_channels, selected_product, i, variants,
                 enriched, calls, error, progress_log, eval_vars>>

\* results.append({"channel_id": ..., "channel_name": ..., "variants": enriched})
AppendResult ==
  /\ pc = "enrich"
  /\ Len(enriched) = Len(variants)
  /\ results' = Append(results, [channel_id |-> selected_channels[i].id,
                                 channel_name |-> selected_channels[i].name,
                                 variants |-> enriched])
  /\ pc' = "progress"
  /\ reply' = NoReply
  /\ UNCHANGED <<session_results, selected_channels, selected_product, i, variants,
                 enriched, calls, error, progress_log, eval_vars>>

\* The count of the channels before the current one reported.
ReportProgress_ZeroBased ==
  /\ pc = "progress"
  /\ \E raised \in BOOLEAN :
       IF raised
       THEN HandleError(ProgressFailed) /\ reply' = reply
       ELSE /\ reply' = reply
            /\ progress_log' = Append(progress_log, <<i - 1, Len(selected_channels)>>)
            /\ IF i < Len(selected_channels)
               THEN i' = i + 1 /\ pc' = "call"
               ELSE i' = i /\ pc' = "store"
            /\ UNCHANGED <<session_results, selected_channels, selected_product,
                           results, variants, enriched, calls, error, eval_vars>>

\* progress.progress(i / len(selected_channels)), which returns or raises
ReportProgress ==
  /\ pc = "progress"
  /\ \E raised \in BOOLEAN :
       IF raised
       THEN HandleError(ProgressFailed) /\ reply' = reply
       ELSE /\ reply' = reply
            /\ progress_log' = Append(progress_log, <<i, Len(selected_channels)>>)
            /\ IF i < Len(selected_channels)
               THEN i' = i + 1 /\ pc' = "call"
               ELSE i' = i /\ pc' = "store"
            /\ UNCHANGED <<session_results, selected_channels, selected_product,
                           results, variants, enriched, calls, error, eval_vars>>

\* st.session_state.results = results; status.success(...)
\* The script run ends here and its locals results, variants, enriched go.
StoreResults ==
  /\ pc = "store"
  /\ session_results' = results
  /\ pc' = "done"
  /\ results' = <<>>
  /\ variants' = <<>>
  /\ enriched' = <<>>
  /\ UNCHANGED <<selected_channels, selected_product, i, calls, reply, error,
                 progress_log, eval_vars>>

Next ==
  \/ RejectEmpty
  \/ StartRun
  \/ CallGeneration
  \/ ReceiveReply
  \/ EnrichVariant
  \/ AppendResult
  \/ ReportProgress
  \/ StoreResults

Spec == Init /\ [][Next]_vars

(***************************************************************************)
(* Claims about the generation run.                                        *)
(***************************************************************************)
SelectedIds == [k \in 1..Len(selected_channels) |-> selected_channels[k].id]

SelectedNames == [k \in 1..Len(selected_channels) |-> selected_channels[k].name]

ResultIds(rs) == [k \in 1..Len(rs) |-> rs[k].channel_id]

ResultNames(rs) == [k \in 1..Len(rs) |-> rs[k].channel_name]

\* The generation call failed: transport failure, non-success status or a
\* reply that does not parse.
CallFailed(rep) == rep.status \in {"urlerror", "httperror"} \/ rep.json = "invalid"

\* C1: when the generation call for the i-th channel fails, the run aborts
\* there with the error shown, the calls made are those for channels 1..i and
\* no other follows in that run, and the stored results are left as they were:
\* none of the run's results is recorded, those of channels 1..i-1 included.
C1_FailFast ==
  [][ /\ (pc = "waiting" /\ CallFailed(reply')) =>
           /\ pc' = "aborted"
           /\ error' \in GenerationErrors
           /\ calls' = SubSeq(SelectedIds, 1, i)
           /\ session_results' = session_results
      /\ (pc = "aborted") => (pc' \in {"call", "rejected"} /\ calls' = <<>>)
    ]_vars

\* The second of two channels got "not json" after the first had succeeded,
\* and nothing is stored.
C1_Witness ==
  /\ pc = "aborted"
  /\ error = JSONDecodeError
  /\ reply.json = "invalid"
  /\ i = 2
  /\ Len(calls) = 2
  /\ session_results = <<>>

\* C2: the accumulating results are at every step the results of a prefix of
\* the requested channels, in request order, and a completed run has stored
\* exactly one result per requested channel in request order.
C2_RequestOrder ==
  /\ Len(results) <= Len(selected_channels)
  /\ ResultIds(results) = SubSeq(SelectedIds, 1, Len(results))
  /\ ResultNames(results) = SubSeq(SelectedNames, 1, Len(results))
  /\ pc = "done" =>
       /\ ResultIds(session_results) = SelectedIds
       /\ ResultNames(session_results) = SelectedNames

\* A completed run over facebook, then instagram.
C2_Witness ==
  /\ pc = "done"
  /\ SelectedIds = <<"facebook", "instagram">>
  /\ ResultIds(session_results) = <<"facebook", "instagram">>

\* C3: a request with no channel is rejected with the validation message; no
\* generation call is made in it and the stored results are left as they were.
C3_EmptySelectionRejected ==
  [][ /\ (Resting /\ selected_channels' = <<>>) =>
           /\ pc' = "rejected"
           /\ error' = SelectChannel
           /\ calls' = <<>>
           /\ results' = <<>>
           /\ session_results' = session_results
      /\ (pc = "rejected") => (pc' \in {"call", "rejected"} /\ calls' = <<>>)
    ]_vars

\* A rejected request after a run that stored results.
C3_Witness ==
  /\ pc = "rejected"
  /\ error = SelectChannel
  /\ calls = <<>>
  /\ session_results # <<>>

\* C5: no result of the accumulating or stored sequence has an empty variant
\* list: a reply without variants, or with an empty or malformed variants
\* field, aborts the run.
C5_EmptyVariantsIsError ==
  \A r \in Range(results) \cup Range(session_results) : r.variants # <<>>

\* C8: a failure of the progress report does not abort the run.
C8_ProgressBestEffort ==
  ~(pc = "aborted" /\ error = ProgressFailed)

RawPool == <<VariantA, VariantB>>

ComplianceKeys == { "_compliance_issues", "_compliance_score" }

\* The variant without what enrichment adds.
RawOf(v) == [k \in DOMAIN v \ ComplianceKeys |-> v[k]]

C10_Text(v) ==
  (IF "headline" \in DOMAIN v THEN v["headline"] ELSE <<>>) \o <<" ">> \o
  (IF "body" \in DOMAIN v THEN v["body"] ELSE <<>>) \o <<" ">> \o
  (IF "cta" \in DOMAIN v THEN v["cta"] ELSE <<>>)

\* evaluate(headline + " " + body + " " + callToAction, category) for the
\* variants of the replies and the categories of the products.
C10_Expected ==
  [n \in 1..Len(RawPool) |->
     [c \in { prod.category : prod \in PRODUCT_DATABASE } |->
        check_compliance(C10_Text(RawPool[n]), c)]]

IsEnriched(v, cat) ==
  /\ ComplianceKeys \subseteq DOMAIN v
  /\ \E n \in 1..Len(RawPool) :
       /\ RawOf(v) = RawPool[n]
       /\ v["_compliance_issues"] = C10_Expected[n][cat]
       /\ v["_compliance_score"] = get_compliance_score(C10_Expected[n][cat])

AllEnriched(rs, cat) ==
  \A k \in 1..Len(rs) : \A j \in 1..Len(rs[k].variants) :
    IsEnriched(rs[k].variants[j], cat)

\* C10: every variant of the accumulating and of the stored results is a
\* variant of the reply with the issues of check_compliance on its headline,
\* body and call to action for the category of the run's product, and the
\* score of those issues; a variant is enriched in its turn and only then
\* enters the results.
C10_Enrichment ==
  /\ AllEnriched(results, selected_product.category)
  /\ \A j \in 1..Len(enriched) : IsEnriched(enriched[j], selected_product.category)
  /\ \E prod \in PRODUCT_DATABASE : AllEnriched(session_results, prod.category)
  /\ pc = "enrich" =>
       /\ Len(enriched) <= Len(variants)
       /\ \A j \in 1..Len(variants) :
            IF j <= Len(enriched)
            THEN variants[j] = enriched[j]
            ELSE DOMAIN variants[j] \cap ComplianceKeys = {}
  /\ pc = "progress" =>
       /\ Len(enriched) = Len(variants)
       /\ results[Len(results)].variants = enriched

\* Stored results of a Household run: VariantB without issue although its
\* notes and hashtags hold rule phrases, VariantA with the critical issue.
C10_Witness ==
  /\ pc = "done"
  /\ selected_product.category = "Household"
  /\ Len(session_results) = 2
  /\ Len(session_results[2].variants) = 2
  /\ session_results[2].variants[1]["_compliance_score"] = "Compliant"
  /\ session_results[2].variants[2]["_compliance_score"] = "Needs Review"

InRun == pc \in { "call", "waiting", "enrich", "progress", "store" }

\* C11: the calls of a run are those for a prefix of the requested channels,
\* one per channel and in request order; a call is outstanding only while
\* main() waits for it, it is then the only call without a result, and the
\* next call is made only when every earlier call has its result appended;
\* a completed run has made exactly one call per requested channel.
C11_SequentialNoRetry ==
  /\ Len(calls) <= Len(selected_channels)
  /\ calls = SubSeq(SelectedIds, 1, Len(calls))
  /\ \A a, b \in 1..Len(calls) : a # b => calls[a] # calls[b]
  /\ InRun =>
       /\ Len(calls) - Len(results) = (IF pc \in {"waiting", "enrich"} THEN 1 ELSE 0)
       /\ (pc \in {"call", "waiting", "enrich"}) => (Len(results) = i - 1)
       /\ (pc \in {"progress", "store"}) => (Len(results) = i)
  /\ (pc = "done") => (calls = SelectedIds)

\* A completed run over two channels: two calls, one per channel.
C11_Witness ==
  /\ pc = "done"
  /\ Len(selected_channels) = 2
  /\ calls = SelectedIds

\* C12: the values reported so far are 1/n, 2/n, ... in this order, one per
\* result appended, the last of them right after its result was appended with
\* the number of results as numerator; n/n is reported only when every
\* requested channel has its result.
C12_ProgressTracksResults ==
  LET n == Len(selected_channels)
  IN  /\ progress_log = [k \in 1..Len(progress_log) |-> <<k, n>>]
      /\ Len(progress_log) <= n
      /\ InRun =>
           Len(progress_log) = (IF pc = "progress" THEN Len(results) - 1 ELSE Len(results))
      /\ (pc = "done") => (Len(progress_log) = n)
      /\ (Len(progress_log) = n /\ n > 0) => (pc \in {"store", "done"})

\* A completed run over two channels reported 1/2, then 2/2.
C12_Witness ==
  /\ pc = "done"
  /\ progress_log = << <<1, 2>>, <<2, 2>> >>

\* C13: the stored results change only in the step that ends a run with a
\* result for every requested channel, and become that run's results; a step
\* into an aborted or a rejected run leaves them as they were.
C13_StoredResultsFrame ==
  [][ /\ (session_results' # session_results) =>
           /\ pc = "store"
           /\ pc' = "done"
           /\ Len(results) = Len(selected_channels)
           /\ session_results' = results
      /\ (pc' \in {"aborted", "rejected"}) => (session_results' = session_results)
    ]_vars

\* A run aborted at its second channel while the results of an earlier run
\* are stored.
C13_Witness ==
  /\ pc = "aborted"
  /\ i = 2
  /\ Len(session_results) = 2

====
